---- MODULE Spec2Model ----
(***************************************************************************)
(* TaskFlow API: the hourly overdue sweep (OverdueTasksService) and the    *)
(* writers of the tasks table it shares the store and the queue with       *)
(* (TasksService.update, updateStatus, remove), followed by the request    *)
(* handlers TasksService.findAll, TasksService.create and                  *)
(* TasksController.batchProcess, each under a specification of its own.    *)
(*                                                                         *)
(* The store is a PostgreSQL table read and written at READ COMMITTED:     *)
(* `store` is the committed table, `lock` the row locks open transactions  *)
(* hold, and an UPDATE inside a transaction becomes visible in `store`     *)
(* only at commit.  The queue is a BullMQ queue: a list of waiting jobs,   *)
(* written immediately by add() whatever transaction is open.              *)
(***************************************************************************)
EXTENDS Integers, Sequences, FiniteSets, TLC

\* ------------------------------------------------------------------ bounds
NumTasks   == 2      \* rows of the tasks table
MaxTime    == 2      \* the clock runs 0..MaxTime
MaxUserOps == 1      \* user-initiated writes (update / updateStatus / remove)
MaxPageIn  == 3      \* findAll is called with page numbers -1..MaxPageIn
MaxLimitIn == 102    \* findAll is called with limits -1..MaxLimitIn
MaxMatching == 101   \* rows that match the filter of findAll: 0..MaxMatching
MaxBatch   == 2      \* task ids in one batch request: 0..MaxBatch

\* --------------------------------------------------------------- constants
ATTEMPTS == 3        \* attempts: 3 of the 'mark-overdue' job options
MAX_LIMIT == 100     \* TasksService.MAX_LIMIT
DEFAULT_PAGE == 1    \* findAll(filter, page = 1, ...)
DEFAULT_LIMIT == 10  \* findAll(filter, ..., limit = 10)
FALLBACK_PAGE == 1   \* safePage = ... ? page : 1
FALLBACK_LIMIT == 10 \* safeLimit = ... ? Math.min(...) : 10

Tasks    == 1..NumTasks
Times    == 0..MaxTime
NoDate   == -1                  \* a NULL due_date
DueDates == (0..(MaxTime - 1)) \cup {NoDate}
Sweeps   == {"A", "B"}          \* two cron invocations that may overlap
NoOwner  == "free"
User     == "user"

PENDING     == "PENDING"
IN_PROGRESS == "IN_PROGRESS"
COMPLETED   == "COMPLETED"
OVERDUE     == "OVERDUE"
TaskStatus  == {PENDING, IN_PROGRESS, COMPLETED, OVERDUE}
Absent      == [status |-> "absent", dueDate |-> NoDate]

VARIABLES
  clock,         \* wall clock read by new Date()
  store,         \* committed rows: task id -> [status, dueDate] or Absent
  lock,          \* row lock owner: task id -> NoOwner, a sweep, or User
  queue,         \* waiting jobs of 'task-processing', oldest first
  pc,            \* sweep -> "idle","find","update","add","commit","done"
  now,           \* sweep -> its reading of the clock
  overdueTasks,  \* sweep -> the selection result, a sequence of [id, dueDate]
  idx,           \* sweep -> position of the for loop in overdueTasks
  logged,        \* sweep -> "none","noop","ok","error": what it logged last
  failedAt,      \* sweep -> the step that threw, or "none"
  propagated,    \* sweep -> an exception left checkOverdueTasks
  calls,         \* sweep -> the queue.add calls of this invocation, in order
  wrote,         \* sweep -> rows its committed transaction set to OVERDUE
  startEligible, \* sweep -> rows eligible when it read the clock
  touched,       \* sweep -> rows another writer committed to since its start
  raced,         \* sweep -> rows it selected while another open invocation had them selected
  lastOk,        \* `now` of the last undisturbed successful sweep, no write since
  upc,           \* TasksService.update: "idle","locked","saved","commit"
  uTask, uDto, uOrig,  \* its task id, the status of its dto, the status it read
  uAdd,          \* its taskQueue.add: "none" (not called), "accepted" or "failed"
  uResult,       \* "none", "ok" (task returned), "notfound" or "error" (thrown)
  uOps,          \* user-initiated writes started so far
  deduped,       \* sweep -> rows whose add of this invocation was a no-op on its key
  unqueued,      \* rows a sweep committed to OVERDUE with no job accepted for it
  aborted,       \* rows eligible at the start of an aborted sweep, not written by others since
  fpc,           \* TasksService.findAll: "idle","done"
  page, limit,   \* its arguments, as JavaScript values
  matching,      \* number of rows that match its filter
  safePage, safeLimit,  \* its local constants
  skip, take,    \* what it passed to qb.skip() and qb.take()
  dataLen,       \* number of rows it returned
  bpc,           \* TasksController.batchProcess: "idle","loop","done"
  taskIds, action,      \* operations.tasks and operations.action
  bIdx,          \* position of its for loop in taskIds
  results,       \* the result list it builds
  effects,       \* per iteration: the action took effect on the row
  cpc,           \* TasksService.create: "idle","saved","added","done"
  cId, cStatus,  \* the id and the status of the row it saved
  cResult,       \* "none", "ok" (the task returned) or "error" (an exception thrown)
  cUsed,         \* ids generated so far
  gpc,           \* RolesGuard.canActivate: "idle","done"
  handlerRoles, classRoles,  \* the 'roles' metadata of the handler and of its class
  user,          \* req.user
  outcome        \* "none", "true", "false" (returned) or the ForbiddenException thrown

ghostVars == <<unqueued, aborted>>
sweepVars == <<deduped, pc, now, overdueTasks, idx, logged, failedAt, propagated, calls,
               wrote, startEligible, touched, raced>>
userVars  == <<upc, uTask, uDto, uOrig, uAdd, uResult>>
pageVars  == <<fpc, page, limit, matching, safePage, safeLimit, skip, take, dataLen>>
batchVars == <<bpc, taskIds, action, bIdx, results, effects>>
createVars == <<cpc, cId, cStatus, cResult, cUsed>>
guardVars == <<gpc, handlerRoles, classRoles, user, outcome>>
reqVars   == <<pageVars, batchVars, createVars, guardVars>>
vars == <<clock, store, lock, queue, sweepVars, ghostVars, lastOk, userVars, uOps, reqVars>>

\* ------------------------------------------------------------- the queue
\* jobId: `overdue-${task.id}`
JobKey(id) == <<"overdue-", id>>
AutoId     == <<"auto">>

\* a job keyed by the due date instead of the task id
MarkOverdueJobByDate(task) ==
  [name |-> "mark-overdue", jobId |-> <<"overdue-", task.dueDate>>,
   data |-> [taskId |-> task.id, dueDate |-> task.dueDate],
   attempts |-> ATTEMPTS, removeOnComplete |-> TRUE]

MarkOverdueJob(task) ==
  [name |-> "mark-overdue", jobId |-> JobKey(task.id),
   data |-> [taskId |-> task.id, dueDate |-> task.dueDate],
   attempts |-> ATTEMPTS, removeOnComplete |-> TRUE]

StatusUpdateJob(id, status) ==
  [name |-> "task-status-update", jobId |-> AutoId,
   data |-> [taskId |-> id, status |-> status],
   attempts |-> 1, removeOnComplete |-> FALSE]

\* a queue that accepts every add, whatever its jobId
QueueAddAlways(q, job) ==
  Append(q, job)

\* Queue.add: a job whose custom jobId is already in the queue is not added
QueueAdd(q, job) ==
  IF job.jobId # AutoId /\ \E i \in 1..Len(q) : q[i].jobId = job.jobId
  THEN q
  ELSE Append(q, job)

JobsFor(q, id) == {i \in 1..Len(q) : q[i].name = "mark-overdue" /\ q[i].data.taskId = id}

\* ------------------------------------------------------------- selection
\* the selection without its status filter
EligibleAnyStatus(st, n) ==
  {t \in Tasks : /\ st[t] # Absent
                 /\ st[t].dueDate # NoDate
                 /\ st[t].dueDate < n}

\* where: { dueDate: LessThan(now), status: TaskStatus.PENDING }
Eligible(st, n) ==
  {t \in Tasks : /\ st[t].status = PENDING
                 /\ st[t].dueDate # NoDate
                 /\ st[t].dueDate < n}

\* order: { dueDate: 'DESC' }
OrderedDesc(seq) ==
  \A i, j \in 1..Len(seq) : i < j => seq[i].dueDate >= seq[j].dueDate

\* order: { dueDate: 'ASC' }, select: ['id', 'title', 'dueDate']
Ordered(seq) == \A i, j \in 1..Len(seq) : i < j => seq[i].dueDate <= seq[j].dueDate

FindResults(st, n) ==
  LET E == Eligible(st, n)
      k == Cardinality(E)
  IN { seq \in [1..k -> {[id |-> t, dueDate |-> st[t].dueDate] : t \in E}] :
         /\ \A i, j \in 1..k : i # j => seq[i].id # seq[j].id
         /\ Ordered(seq) }

Ids(seq) == {seq[i].id : i \in 1..Len(seq)}

\* ---------------------------------------------------------- ghost helpers
\* another writer w committed to the rows T
Touch(w, T) ==
  [s \in Sweeps |-> IF s # w /\ pc[s] # "idle" THEN touched[s] \cup T ELSE touched[s]]

\* JavaScript values of the request parameters
Num(n)    == [kind |-> "number", v |-> n]
NaN       == [kind |-> "NaN", v |-> 0]
Infinity  == [kind |-> "Infinity", v |-> 0]
NegInfinity == [kind |-> "-Infinity", v |-> 0]
Undefined == [kind |-> "undefined", v |-> 0]
Text      == [kind |-> "string", v |-> 0]

\* the sweep, the worker and TasksService.update at rest, the queue empty
InitIdle ==
  /\ clock = 0
  /\ lock = [t \in Tasks |-> NoOwner]
  /\ queue = <<>>
  /\ pc = [s \in Sweeps |-> "idle"]
  /\ now = [s \in Sweeps |-> 0]
  /\ overdueTasks = [s \in Sweeps |-> <<>>]
  /\ idx = [s \in Sweeps |-> 1]
  /\ logged = [s \in Sweeps |-> "none"]
  /\ failedAt = [s \in Sweeps |-> "none"]
  /\ propagated = [s \in Sweeps |-> FALSE]
  /\ calls = [s \in Sweeps |-> <<>>]
  /\ wrote = [s \in Sweeps |-> {}]
  /\ startEligible = [s \in Sweeps |-> {}]
  /\ touched = [s \in Sweeps |-> {}]
  /\ raced = [s \in Sweeps |-> {}]
  /\ lastOk = NoDate
  /\ upc = "idle"
  /\ uTask = 1
  /\ uDto = PENDING
  /\ uOrig = PENDING
  /\ uAdd = "none"
  /\ uResult = "none"
  /\ uOps = 0
  /\ deduped = [s \in Sweeps |-> {}]
  /\ unqueued = {}
  /\ aborted = {}

\* no findAll call made
InitFindAllIdle ==
  /\ fpc = "idle"
  /\ page = Undefined /\ limit = Undefined /\ matching = 0
  /\ safePage = 0 /\ safeLimit = 0 /\ skip = 0 /\ take = 0 /\ dataLen = 0

\* no batch request made
InitBatchIdle ==
  /\ bpc = "idle"
  /\ taskIds = <<>> /\ action = "complete" /\ bIdx = 1
  /\ results = <<>> /\ effects = <<>>

\* no create call made
InitCreateIdle ==
  /\ cpc = "idle"
  /\ cId = 1 /\ cStatus = PENDING /\ cResult = "none" /\ cUsed = {}

\* metadata set by @Roles(...) or absent, and the user set by JwtStrategy or absent
AppRole   == {"admin", "user"}
NoRoles   == [defined |-> FALSE, roles |-> {}]
NoUser    == [present |-> FALSE, role |-> "undefined"]

\* no request at the guard
InitGuardIdle ==
  /\ gpc = "idle"
  /\ handlerRoles = NoRoles /\ classRoles = NoRoles
  /\ user = NoUser
  /\ outcome = "none"

Init ==
  /\ store \in [Tasks -> [status : TaskStatus, dueDate : DueDates]]
  /\ InitIdle
  /\ InitFindAllIdle
  /\ InitBatchIdle
  /\ InitCreateIdle
  /\ InitGuardIdle

Tick ==
  /\ clock < MaxTime
  /\ clock' = clock + 1
  /\ UNCHANGED <<store, lock, queue, sweepVars, ghostVars, lastOk, userVars, uOps, reqVars>>

\* ------------------------------------------------- OverdueTasksService
Task(s) == overdueTasks[s][idx[s]]

\* the locks a transaction of owner o releases when it ends
Release(o) == [t \in Tasks |-> IF lock[t] = o THEN NoOwner ELSE lock[t]]

\* a catch that logs and rethrows
CatchRethrow(s, step) ==
  /\ logged' = [logged EXCEPT ![s] = "error"]
  /\ failedAt' = [failedAt EXCEPT ![s] = step]
  /\ propagated' = [propagated EXCEPT ![s] = TRUE]
  /\ pc' = [pc EXCEPT ![s] = "done"]
  /\ aborted' = aborted \cup (startEligible[s] \ touched[s])

\* catch (err) { logger.error(...) } finally { ... }: the invocation returns
Catch(s, step) ==
  /\ logged' = [logged EXCEPT ![s] = "error"]
  /\ failedAt' = [failedAt EXCEPT ![s] = step]
  /\ propagated' = propagated
  /\ pc' = [pc EXCEPT ![s] = "done"]
  /\ aborted' = aborted \cup (startEligible[s] \ touched[s])

\* @Cron(EVERY_HOUR) checkOverdueTasks(): const now = new Date()
Start(s) ==
  /\ pc[s] = "idle"
  /\ pc' = [pc EXCEPT ![s] = "find"]
  /\ now' = [now EXCEPT ![s] = clock]
  /\ startEligible' = [startEligible EXCEPT ![s] = Eligible(store, clock)]
  /\ UNCHANGED <<clock, store, lock, queue, overdueTasks, idx, logged, failedAt,
                 propagated, calls, wrote, touched, raced, lastOk, userVars, uOps, deduped, ghostVars, reqVars>>

\* rows of the selection that another open invocation has selected too
Shared(s, seq) ==
  {t \in Ids(seq) : \E o \in Sweeps \ {s} :
      pc[o] \in {"update", "add", "commit"} /\ t \in Ids(overdueTasks[o])}

\* const overdueTasks = await tasksRepository.find(...); if (length === 0) return
Find(s) ==
  /\ pc[s] = "find"
  /\ \E seq \in FindResults(store, now[s]) :
       /\ overdueTasks' = [overdueTasks EXCEPT ![s] = seq]
       /\ raced' = [o \in Sweeps |->
                      IF o = s THEN Shared(s, seq)
                      ELSE raced[o] \cup {t \in Shared(s, seq) : t \in Ids(overdueTasks[o])
                                             /\ pc[o] \in {"update", "add", "commit"}}]
       /\ IF seq = <<>>
          THEN /\ logged' = [logged EXCEPT ![s] = "noop"]
               /\ pc' = [pc EXCEPT ![s] = "done"]
               /\ lastOk' = IF touched[s] = {} THEN now[s] ELSE lastOk
          ELSE /\ pc' = [pc EXCEPT ![s] = "update"]
               /\ UNCHANGED <<logged, lastOk>>
  /\ idx' = [idx EXCEPT ![s] = 1]
  /\ UNCHANGED <<clock, store, lock, queue, now, failedAt, propagated, calls,
                 wrote, startEligible, touched, userVars, uOps, deduped, ghostVars, reqVars>>

\* the selection query throws
FindFail(s) ==
  /\ pc[s] = "find"
  /\ Catch(s, "find")
  /\ UNCHANGED <<clock, store, lock, queue, now, overdueTasks, idx, calls, wrote,
                 startEligible, touched, raced, lastOk, userVars, uOps, deduped, unqueued, reqVars>>

\* the update issued on the repository, outside the transaction: it commits at once
UpdateAutocommit(s) ==
  /\ pc[s] = "update"
  /\ lock[Task(s).id] \in {NoOwner, s}
  /\ store' = IF store[Task(s).id] = Absent THEN store
              ELSE [store EXCEPT ![Task(s).id].status = OVERDUE]
  /\ pc' = [pc EXCEPT ![s] = "add"]
  /\ UNCHANGED <<clock, lock, queue, now, overdueTasks, idx, logged, failedAt,
                 propagated, calls, wrote, startEligible, touched, raced, lastOk,
                 userVars, uOps, deduped, ghostVars, reqVars>>

\* await manager.update(Task, task.id, { status: OVERDUE }): UPDATE ... WHERE id = $1
\* takes the row lock (waits while another transaction holds it); a row that
\* no longer exists is not an error
Update(s) ==
  /\ pc[s] = "update"
  /\ lock[Task(s).id] \in {NoOwner, s}
  /\ lock' = IF store[Task(s).id] = Absent THEN lock
             ELSE [lock EXCEPT ![Task(s).id] = s]
  /\ pc' = [pc EXCEPT ![s] = "add"]
  /\ UNCHANGED <<clock, store, queue, now, overdueTasks, idx, logged, failedAt,
                 propagated, calls, wrote, startEligible, touched, raced, lastOk,
                 userVars, uOps, deduped, ghostVars, reqVars>>

\* manager.update throws (store error, lock timeout, deadlock victim):
\* transaction() rolls back and rethrows into the catch
UpdateFail(s) ==
  /\ pc[s] = "update"
  /\ lock' = Release(s)
  /\ Catch(s, "update")
  /\ UNCHANGED <<clock, store, queue, now, overdueTasks, idx, calls, wrote,
                 startEligible, touched, raced, lastOk, userVars, uOps, deduped, unqueued, reqVars>>

\* every iteration submits the job of the first selected task
AddFirstOnly(s) ==
  /\ pc[s] = "add"
  /\ queue' = QueueAdd(queue, MarkOverdueJob(overdueTasks[s][1]))
  /\ calls' = [calls EXCEPT ![s] = Append(@, <<MarkOverdueJob(overdueTasks[s][1])>>)]
  /\ idx' = [idx EXCEPT ![s] = @ + 1]
  /\ pc' = [pc EXCEPT ![s] = IF idx[s] = Len(overdueTasks[s]) THEN "commit" ELSE "update"]
  /\ deduped' = [deduped EXCEPT ![s] = IF QueueAdd(queue, MarkOverdueJob(overdueTasks[s][1])) = queue
                                        THEN @ \cup {overdueTasks[s][1].id} ELSE @ \ {overdueTasks[s][1].id}]
  /\ unqueued' = IF QueueAdd(queue, MarkOverdueJob(overdueTasks[s][1])) = queue
                 THEN unqueued ELSE unqueued \ {overdueTasks[s][1].id}
  /\ UNCHANGED <<clock, store, lock, now, overdueTasks, logged, failedAt,
                 propagated, wrote, startEligible, touched, raced, lastOk,
                 userVars, uOps, aborted, reqVars>>

\* await taskQueue.add('mark-overdue', {...}, { jobId, removeOnComplete, attempts })
Add(s) ==
  /\ pc[s] = "add"
  /\ queue' = QueueAdd(queue, MarkOverdueJob(Task(s)))
  /\ calls' = [calls EXCEPT ![s] = Append(@, <<MarkOverdueJob(Task(s))>>)]
  /\ idx' = [idx EXCEPT ![s] = @ + 1]
  /\ pc' = [pc EXCEPT ![s] = IF idx[s] = Len(overdueTasks[s]) THEN "commit" ELSE "update"]
  /\ deduped' = [deduped EXCEPT ![s] = IF QueueAdd(queue, MarkOverdueJob(Task(s))) = queue
                                        THEN @ \cup {Task(s).id} ELSE @ \ {Task(s).id}]
  /\ unqueued' = IF QueueAdd(queue, MarkOverdueJob(Task(s))) = queue
                 THEN unqueued ELSE unqueued \ {Task(s).id}
  /\ UNCHANGED <<clock, store, lock, now, overdueTasks, logged, failedAt,
                 propagated, wrote, startEligible, touched, raced, lastOk,
                 userVars, uOps, aborted, reqVars>>

\* taskQueue.add throws and the rows updated so far are committed all the same
AddFailCommitted(s) ==
  /\ pc[s] = "add"
  /\ store' = [t \in Tasks |-> IF lock[t] = s
                               THEN [store[t] EXCEPT !.status = OVERDUE]
                               ELSE store[t]]
  /\ lock' = Release(s)
  /\ Catch(s, "add")
  /\ UNCHANGED <<clock, queue, now, overdueTasks, idx, calls, wrote,
                 startEligible, touched, raced, lastOk, userVars, uOps, deduped, unqueued, reqVars>>

\* taskQueue.add throws: the transaction rolls back, jobs already added stay
AddFail(s) ==
  /\ pc[s] = "add"
  /\ lock' = Release(s)
  /\ Catch(s, "add")
  /\ UNCHANGED <<clock, store, queue, now, overdueTasks, idx, calls, wrote,
                 startEligible, touched, raced, lastOk, userVars, uOps, deduped, unqueued, reqVars>>

\* the rows a commit of s writes
Written(s) == {t \in Tasks : lock[t] = s}

\* a commit that deletes the rows it has processed
CommitPurge(s) ==
  /\ pc[s] = "commit"
  /\ store' = [t \in Tasks |-> IF t \in Written(s) THEN Absent ELSE store[t]]
  /\ lock' = Release(s)
  /\ wrote' = [wrote EXCEPT ![s] = Written(s)]
  /\ touched' = Touch(s, Written(s))
  /\ lastOk' = IF touched[s] = {} THEN now[s] ELSE NoDate
  /\ logged' = [logged EXCEPT ![s] = "ok"]
  /\ pc' = [pc EXCEPT ![s] = "done"]
  /\ unqueued' = unqueued \cup (Written(s) \cap deduped[s])
  /\ UNCHANGED <<clock, queue, now, overdueTasks, idx, failedAt, propagated,
                 calls, startEligible, raced, userVars, uOps, deduped, aborted, reqVars>>

\* the callback returned: COMMIT, then logger.log('... marked OVERDUE & queued')
Commit(s) ==
  /\ pc[s] = "commit"
  /\ store' = [t \in Tasks |-> IF t \in Written(s)
                               THEN [store[t] EXCEPT !.status = OVERDUE]
                               ELSE store[t]]
  /\ lock' = Release(s)
  /\ wrote' = [wrote EXCEPT ![s] = Written(s)]
  /\ touched' = Touch(s, Written(s))
  /\ lastOk' = IF touched[s] = {} THEN now[s] ELSE NoDate
  /\ logged' = [logged EXCEPT ![s] = "ok"]
  /\ pc' = [pc EXCEPT ![s] = "done"]
  /\ unqueued' = unqueued \cup (Written(s) \cap deduped[s])
  /\ UNCHANGED <<clock, queue, now, overdueTasks, idx, failedAt, propagated,
                 calls, startEligible, raced, userVars, uOps, deduped, aborted, reqVars>>

\* a COMMIT failure that leaves the invocation as an exception
CommitFailUncaught(s) ==
  /\ pc[s] = "commit"
  /\ lock' = Release(s)
  /\ CatchRethrow(s, "commit")
  /\ UNCHANGED <<clock, store, queue, now, overdueTasks, idx, calls, wrote,
                 startEligible, touched, raced, lastOk, userVars, uOps, deduped, unqueued, reqVars>>

\* COMMIT fails: nothing of the transaction is applied
CommitFail(s) ==
  /\ pc[s] = "commit"
  /\ lock' = Release(s)
  /\ Catch(s, "commit")
  /\ UNCHANGED <<clock, store, queue, now, overdueTasks, idx, calls, wrote,
                 startEligible, touched, raced, lastOk, userVars, uOps, deduped, unqueued, reqVars>>

\* the invocation has returned; the service waits for the next tick of the cron
Return(s) ==
  /\ pc[s] = "done"
  /\ pc' = [pc EXCEPT ![s] = "idle"]
  /\ now' = [now EXCEPT ![s] = 0]
  /\ overdueTasks' = [overdueTasks EXCEPT ![s] = <<>>]
  /\ idx' = [idx EXCEPT ![s] = 1]
  /\ logged' = [logged EXCEPT ![s] = "none"]
  /\ failedAt' = [failedAt EXCEPT ![s] = "none"]
  /\ calls' = [calls EXCEPT ![s] = <<>>]
  /\ wrote' = [wrote EXCEPT ![s] = {}]
  /\ startEligible' = [startEligible EXCEPT ![s] = {}]
  /\ touched' = [touched EXCEPT ![s] = {}]
  /\ raced' = [raced EXCEPT ![s] = {}]
  /\ deduped' = [deduped EXCEPT ![s] = {}]
  /\ UNCHANGED <<clock, store, lock, queue, propagated, lastOk, userVars, uOps, ghostVars, reqVars>>

\* the worker finished the oldest job; removeOnComplete drops it from the queue
JobComplete ==
  /\ queue # <<>>
  /\ queue' = Tail(queue)
  /\ UNCHANGED <<clock, store, lock, sweepVars, ghostVars, lastOk, userVars, uOps, reqVars>>

\* ------------------------------------------------------- TasksService
\* update(id, dto): startTransaction; findOne(Task, { where: { id },
\* lock: pessimistic_write }) waits for the row lock; a missing row throws
\* NotFoundException, which rolls back
TsUpdateBegin(id, status) ==
  /\ upc = "idle"
  /\ uOps < MaxUserOps
  /\ lock[id] = NoOwner
  /\ uOps' = uOps + 1
  /\ uTask' = id
  /\ uAdd' = "none"
  /\ IF store[id] = Absent
     THEN /\ uResult' = "notfound"
          /\ UNCHANGED <<lock, upc, uDto, uOrig>>
     ELSE /\ lock' = [lock EXCEPT ![id] = User]
          /\ upc' = "locked"
          /\ uDto' = status
          /\ uOrig' = store[id].status
          /\ uResult' = "none"
  /\ UNCHANGED <<clock, store, queue, sweepVars, ghostVars, lastOk, reqVars>>

\* a save that submits the job whether or not the status changed
TsUpdateSaveAlways(enqueued) ==
  /\ upc = "locked"
  /\ upc' = "saved"
  /\ queue' = IF enqueued
              THEN QueueAdd(queue, StatusUpdateJob(uTask, uDto))
              ELSE queue
  /\ uAdd' = IF enqueued THEN "accepted" ELSE "failed"
  /\ UNCHANGED <<clock, store, lock, sweepVars, ghostVars, lastOk, uTask, uDto, uOrig,
                 uResult, uOps, reqVars>>

\* merge + manager.save; if the status changed, taskQueue.add(
\* 'task-status-update'), whose failure (enqueued = FALSE) is logged and swallowed
TsUpdateSave(enqueued) ==
  /\ upc = "locked"
  /\ upc' = "saved"
  /\ queue' = IF uOrig # uDto /\ enqueued
              THEN QueueAdd(queue, StatusUpdateJob(uTask, uDto))
              ELSE queue
  /\ uAdd' = IF uOrig = uDto THEN "none"
             ELSE IF enqueued THEN "accepted" ELSE "failed"
  /\ UNCHANGED <<clock, store, lock, sweepVars, ghostVars, lastOk, uTask, uDto, uOrig,
                 uResult, uOps, reqVars>>

\* queryRunner.commitTransaction(); return savedTask
TsUpdateCommit ==
  /\ upc = "saved"
  /\ store' = [store EXCEPT ![uTask].status = uDto]
  /\ lock' = Release(User)
  /\ touched' = Touch(User, {uTask})
  /\ lastOk' = NoDate
  /\ upc' = "idle"
  /\ uTask' = 1
  /\ uDto' = PENDING
  /\ uOrig' = PENDING
  /\ uResult' = "ok"
  /\ unqueued' = unqueued \ {uTask}
  /\ aborted' = aborted \ {uTask}
  /\ UNCHANGED <<clock, queue, pc, now, overdueTasks, idx, logged, failedAt,
                 propagated, calls, wrote, startEligible, raced, uAdd, uOps, deduped, reqVars>>

\* save or commit throws: rollbackTransaction, InternalServerErrorException
TsUpdateFail ==
  /\ upc \in {"locked", "saved"}
  /\ lock' = Release(User)
  /\ upc' = "idle"
  /\ uTask' = 1
  /\ uDto' = PENDING
  /\ uOrig' = PENDING
  /\ uResult' = "error"
  /\ UNCHANGED <<clock, store, queue, sweepVars, ghostVars, lastOk, uAdd, uOps, reqVars>>

\* updateStatus(id, status): findOne, then tasksRepository.save(task)
updateStatus(id, status) ==
  /\ uOps < MaxUserOps
  /\ store[id] # Absent
  /\ lock[id] = NoOwner
  /\ uOps' = uOps + 1
  /\ store' = [store EXCEPT ![id].status = status]
  /\ touched' = Touch(User, {id})
  /\ lastOk' = NoDate
  /\ unqueued' = unqueued \ {id}
  /\ aborted' = aborted \ {id}
  /\ UNCHANGED <<clock, lock, queue, pc, now, overdueTasks, idx, logged, failedAt,
                 propagated, calls, wrote, startEligible, raced, userVars, deduped, reqVars>>

\* remove(id): tasksRepository.delete(id)
remove(id) ==
  /\ uOps < MaxUserOps
  /\ store[id] # Absent
  /\ lock[id] = NoOwner
  /\ uOps' = uOps + 1
  /\ store' = [store EXCEPT ![id] = Absent]
  /\ touched' = Touch(User, {id})
  /\ lastOk' = NoDate
  /\ unqueued' = unqueued \ {id}
  /\ aborted' = aborted \ {id}
  /\ UNCHANGED <<clock, lock, queue, pc, now, overdueTasks, idx, logged, failedAt,
                 propagated, calls, wrote, startEligible, raced, userVars, deduped, reqVars>>

\* one invocation of the sweep at a time (the hourly schedule), sharing the
\* table and the queue with the request handlers and the worker
Sweep(s) ==
  \/ Start(s)
  \/ Find(s)
  \/ FindFail(s)
  \/ Update(s)
  \/ UpdateFail(s)
  \/ Add(s)
  \/ AddFail(s)
  \/ Commit(s)
  \/ CommitFail(s)
  \/ Return(s)

Next ==
  \/ Tick
  \/ Sweep("A")
  \/ JobComplete
  \/ \E id \in Tasks, status \in TaskStatus : TsUpdateBegin(id, status)
  \/ \E enqueued \in BOOLEAN : TsUpdateSave(enqueued)
  \/ TsUpdateCommit
  \/ TsUpdateFail
  \/ \E id \in Tasks, status \in TaskStatus : updateStatus(id, status)
  \/ \E id \in Tasks : remove(id)

Spec == Init /\ [][Next]_vars

\* two invocations of the sweep that overlap
NextOverlap ==
  \/ Tick
  \/ \E s \in Sweeps : Sweep(s)
  \/ JobComplete

SpecOverlap == Init /\ [][NextOverlap]_vars

\* the sweep and the worker alone: no request handler writes
NextSweep ==
  \/ Tick
  \/ Sweep("A")
  \/ JobComplete

\* every await of the sweep settles and the cron keeps firing
SpecFair == Init /\ [][NextSweep]_vars /\ WF_vars(Sweep("A"))

\* a step in which no await of the sweep throws
NoFailure == \A s \in Sweeps : failedAt'[s] = failedAt[s] \/ failedAt'[s] = "none"

\* moreover the failures of the store and of the queue are transient: from
\* some point on no await throws
SpecSweepFair == SpecFair /\ <>[][NoFailure]_vars

\* ------------------------------------------------- TasksService.update
\* an update request on a table in which some of the ids have no row
InitUpdate ==
  /\ store \in [Tasks -> [status : TaskStatus, dueDate : DueDates] \cup {Absent}]
  /\ InitIdle
  /\ InitFindAllIdle
  /\ InitBatchIdle
  /\ InitCreateIdle
  /\ InitGuardIdle

NextUpdate ==
  \/ \E id \in Tasks, status \in TaskStatus : TsUpdateBegin(id, status)
  \/ \E enqueued \in BOOLEAN : TsUpdateSave(enqueued)
  \/ TsUpdateCommit
  \/ TsUpdateFail
  \/ JobComplete

SpecUpdate == InitUpdate /\ [][NextUpdate]_vars

\* ------------------------------------------------ TasksService.findAll
\* the values a caller can pass for page and for limit
Arguments(hi) ==
  {Num(n) : n \in (-1)..hi} \cup {NaN, Infinity, NegInfinity, Undefined, Text}

\* a default parameter value replaces undefined only
Default(x, d) == IF x = Undefined THEN Num(d) ELSE x

\* Number.isFinite(x): a number that is neither NaN nor an infinity
IsFinite(x) == x.kind = "number"

Min(a, b) == IF a <= b THEN a ELSE b
Max(a, b) == IF a >= b THEN a ELSE b

\* const safePage = Number.isFinite(page) && page > 0 ? page : 1
SafePage(p) ==
  LET x == Default(p, DEFAULT_PAGE)
  IN IF IsFinite(x) /\ x.v > 0 THEN x.v ELSE FALLBACK_PAGE

\* the limit taken as given whenever it is a positive finite number
SafeLimitUncapped(l) ==
  LET x == Default(l, DEFAULT_LIMIT)
  IN IF IsFinite(x) /\ x.v > 0 THEN x.v ELSE FALLBACK_LIMIT

\* const safeLimit = Number.isFinite(limit) && limit > 0
\*                     ? Math.min(limit, TasksService.MAX_LIMIT) : 10
SafeLimit(l) ==
  LET x == Default(l, DEFAULT_LIMIT)
  IN IF IsFinite(x) /\ x.v > 0 THEN Min(x.v, MAX_LIMIT) ELSE FALLBACK_LIMIT

\* getManyAndCount(): the rows from offset `off`, at most `lim` of them
Fetched(n, off, lim) == Min(lim, Max(0, n - off))

\* a findAll call with arguments drawn from Arguments, over a table of which
\* `matching` rows pass the filter
InitFindAll ==
  /\ store = [t \in Tasks |-> [status |-> PENDING, dueDate |-> NoDate]]
  /\ InitIdle
  /\ InitBatchIdle
  /\ InitCreateIdle
  /\ InitGuardIdle
  /\ fpc = "idle"
  /\ page \in Arguments(MaxPageIn)
  /\ limit \in Arguments(MaxLimitIn)
  /\ matching \in 0..MaxMatching
  /\ safePage = 0 /\ safeLimit = 0 /\ skip = 0 /\ take = 0 /\ dataLen = 0

\* qb.skip((safePage - 1) * safeLimit).take(safeLimit); getManyAndCount()
findAll ==
  /\ fpc = "idle"
  /\ safePage' = SafePage(page)
  /\ safeLimit' = SafeLimit(limit)
  /\ skip' = (safePage' - 1) * safeLimit'
  /\ take' = safeLimit'
  /\ dataLen' = Fetched(matching, skip', take')
  /\ fpc' = "done"
  /\ UNCHANGED <<clock, store, lock, queue, sweepVars, ghostVars, lastOk, userVars,
                 uOps, page, limit, matching, batchVars, createVars, guardVars>>

\* the query throws: InternalServerErrorException('Failed to fetch tasks')
findAllFail ==
  /\ fpc = "idle"
  /\ safePage' = SafePage(page)
  /\ safeLimit' = SafeLimit(limit)
  /\ skip' = (safePage' - 1) * safeLimit'
  /\ take' = safeLimit'
  /\ fpc' = "error"
  /\ UNCHANGED <<clock, store, lock, queue, sweepVars, ghostVars, lastOk, userVars,
                 uOps, page, limit, matching, dataLen, batchVars, createVars, guardVars>>

NextFindAll ==
  \/ findAll
  \/ findAllFail

SpecFindAll == InitFindAll /\ [][NextFindAll]_vars

\* ------------------------------------------ TasksController.batchProcess
\* the bodies POST /tasks/batch is called with: the ids may repeat and may
\* name rows that do not exist; the action is not validated by the handler
BatchInputs == UNION {[1..n -> Tasks] : n \in 0..MaxBatch}
Actions == {"complete", "delete", "archive"}

\* a table in which some of the ids have no row
InitBatch ==
  /\ store \in [Tasks -> [status : TaskStatus, dueDate : {NoDate}] \cup {Absent}]
  /\ InitIdle
  /\ InitFindAllIdle
  /\ InitBatchIdle
  /\ InitCreateIdle
  /\ InitGuardIdle

\* const { tasks: taskIds, action } = operations; const results = []
batchProcess(ids, act) ==
  /\ bpc = "idle"
  /\ bpc' = "loop"
  /\ taskIds' = ids
  /\ action' = act
  /\ bIdx' = 1
  /\ results' = <<>>
  /\ effects' = <<>>
  /\ UNCHANGED <<clock, store, lock, queue, sweepVars, ghostVars, lastOk, userVars,
                 uOps, pageVars, createVars, guardVars>>

InLoop(act) == bpc = "loop" /\ bIdx <= Len(taskIds) /\ action = act

\* results.push({ taskId, success: true, result })
Pushed(result, effect) ==
  /\ results' = Append(results, [taskId |-> taskIds[bIdx], success |-> TRUE,
                                 result |-> result, error |-> FALSE])
  /\ effects' = Append(effects, effect)
  /\ bIdx' = bIdx + 1

\* catch (error): results.push({ taskId, success: false, error: ... })
PushedError ==
  /\ results' = Append(results, [taskId |-> taskIds[bIdx], success |-> FALSE,
                                 result |-> "none", error |-> TRUE])
  /\ effects' = Append(effects, FALSE)
  /\ bIdx' = bIdx + 1

\* case 'complete': tasksService.update(taskId, { status: COMPLETED }) returns
\* the saved task; the add of its 'task-status-update' job may fail silently
BatchComplete(enqueued) ==
  /\ InLoop("complete")
  /\ store[taskIds[bIdx]] # Absent
  /\ store' = [store EXCEPT ![taskIds[bIdx]].status = COMPLETED]
  /\ queue' = IF store[taskIds[bIdx]].status # COMPLETED /\ enqueued
              THEN QueueAdd(queue, StatusUpdateJob(taskIds[bIdx], COMPLETED))
              ELSE queue
  /\ Pushed("task", TRUE)
  /\ UNCHANGED <<clock, lock, sweepVars, ghostVars, lastOk, userVars, uOps,
                 pageVars, createVars, guardVars, bpc, taskIds, action>>

\* case 'complete': update throws NotFoundException (no row) or, after a
\* failure of the save or of the commit, InternalServerErrorException; it has
\* rolled back, and a job added before a failing commit stays
BatchCompleteFail(enqueued) ==
  /\ InLoop("complete")
  /\ queue' = IF /\ store[taskIds[bIdx]] # Absent
                 /\ store[taskIds[bIdx]].status # COMPLETED
                 /\ enqueued
              THEN QueueAdd(queue, StatusUpdateJob(taskIds[bIdx], COMPLETED))
              ELSE queue
  /\ PushedError
  /\ UNCHANGED <<clock, store, lock, sweepVars, ghostVars, lastOk, userVars, uOps,
                 pageVars, createVars, guardVars, bpc, taskIds, action>>

\* case 'delete': tasksService.remove(taskId) returns result.affected !== 0
BatchDelete ==
  /\ InLoop("delete")
  /\ store' = [store EXCEPT ![taskIds[bIdx]] = Absent]
  /\ IF store[taskIds[bIdx]] = Absent THEN Pushed("false", FALSE) ELSE Pushed("true", TRUE)
  /\ UNCHANGED <<clock, lock, queue, sweepVars, ghostVars, lastOk, userVars, uOps,
                 pageVars, createVars, guardVars, bpc, taskIds, action>>

\* case 'delete': tasksRepository.delete throws, remove rethrows
BatchDeleteFail ==
  /\ InLoop("delete")
  /\ PushedError
  /\ UNCHANGED <<clock, store, lock, queue, sweepVars, ghostVars, lastOk, userVars,
                 uOps, pageVars, createVars, guardVars, bpc, taskIds, action>>

\* default: throw new HttpException(`Unknown action: ${action}`, BAD_REQUEST)
BatchUnknown ==
  /\ bpc = "loop" /\ bIdx <= Len(taskIds)
  /\ action \notin {"complete", "delete"}
  /\ PushedError
  /\ UNCHANGED <<clock, store, lock, queue, sweepVars, ghostVars, lastOk, userVars,
                 uOps, pageVars, createVars, guardVars, bpc, taskIds, action>>

\* return results
BatchReturn ==
  /\ bpc = "loop" /\ bIdx > Len(taskIds)
  /\ bpc' = "done"
  /\ UNCHANGED <<clock, store, lock, queue, sweepVars, ghostVars, lastOk, userVars,
                 uOps, pageVars, createVars, guardVars, taskIds, action, bIdx, results, effects>>

NextBatch ==
  \/ \E ids \in BatchInputs, act \in Actions : batchProcess(ids, act)
  \/ \E enqueued \in BOOLEAN : BatchComplete(enqueued)
  \/ \E enqueued \in BOOLEAN : BatchCompleteFail(enqueued)
  \/ BatchDelete
  \/ BatchDeleteFail
  \/ BatchUnknown
  \/ BatchReturn

SpecBatch == InitBatch /\ [][NextBatch]_vars

\* ------------------------------------------------- TasksService.create
\* a table with room for new rows
InitCreate ==
  /\ store \in [Tasks -> [status : TaskStatus, dueDate : {NoDate}] \cup {Absent}]
  /\ InitIdle
  /\ InitFindAllIdle
  /\ InitBatchIdle
  /\ InitCreateIdle
  /\ InitGuardIdle

\* the ids a new row can get: never given before, not in the table
FreshIds == {t \in Tasks \ cUsed : store[t] = Absent}

\* startTransaction(); const savedTask = await queryRunner.manager.save(task):
\* the INSERT is not committed yet
CreateSave(id, status) ==
  /\ cpc = "idle"
  /\ id \in FreshIds
  /\ cpc' = "saved"
  /\ cId' = id
  /\ cStatus' = status
  /\ cResult' = "none"
  /\ cUsed' = cUsed \cup {id}
  /\ UNCHANGED <<clock, store, lock, queue, sweepVars, ghostVars, lastOk, userVars,
                 uOps, pageVars, batchVars, guardVars>>

\* the rest of the catch block: rollbackTransaction(), then BadRequestException
\* or InternalServerErrorException is thrown
CreateCatch ==
  /\ cpc' = "done"
  /\ cResult' = "error"

\* manager.save throws
CreateSaveFail(id, status) ==
  /\ cpc = "idle"
  /\ id \in FreshIds
  /\ cId' = id
  /\ cStatus' = status
  /\ cUsed' = cUsed \cup {id}
  /\ CreateCatch
  /\ UNCHANGED <<clock, store, lock, queue, sweepVars, ghostVars, lastOk, userVars,
                 uOps, pageVars, batchVars, guardVars>>

\* await taskQueue.add('task-status-update', { taskId, status })
CreateAdd ==
  /\ cpc = "saved"
  /\ queue' = QueueAdd(queue, StatusUpdateJob(cId, cStatus))
  /\ cpc' = "added"
  /\ UNCHANGED <<clock, store, lock, sweepVars, ghostVars, lastOk, userVars, uOps,
                 pageVars, batchVars, guardVars, cId, cStatus, cResult, cUsed>>

\* taskQueue.add throws
CreateAddFail ==
  /\ cpc = "saved"
  /\ CreateCatch
  /\ UNCHANGED <<clock, store, lock, queue, sweepVars, ghostVars, lastOk, userVars,
                 uOps, pageVars, batchVars, guardVars, cId, cStatus, cUsed>>

\* await queryRunner.commitTransaction(); return savedTask
CreateCommit ==
  /\ cpc = "added"
  /\ store' = [store EXCEPT ![cId] = [status |-> cStatus, dueDate |-> NoDate]]
  /\ cpc' = "done"
  /\ cResult' = "ok"
  /\ UNCHANGED <<clock, lock, queue, sweepVars, ghostVars, lastOk, userVars, uOps,
                 pageVars, batchVars, guardVars, cId, cStatus, cUsed>>

\* commitTransaction throws: the row is not there, the job added before stays
CreateCommitFail ==
  /\ cpc = "added"
  /\ CreateCatch
  /\ UNCHANGED <<clock, store, lock, queue, sweepVars, ghostVars, lastOk, userVars,
                 uOps, pageVars, batchVars, guardVars, cId, cStatus, cUsed>>

\* finally { await queryRunner.release() }: the call is over
CreateReturn ==
  /\ cpc = "done"
  /\ cpc' = "idle"
  /\ UNCHANGED <<clock, store, lock, queue, sweepVars, ghostVars, lastOk, userVars,
                 uOps, pageVars, batchVars, guardVars, cId, cStatus, cResult, cUsed>>

NextCreate ==
  \/ \E id \in Tasks, status \in TaskStatus : CreateSave(id, status)
  \/ \E id \in Tasks, status \in TaskStatus : CreateSaveFail(id, status)
  \/ CreateAdd
  \/ CreateAddFail
  \/ CreateCommit
  \/ CreateCommitFail
  \/ CreateReturn
  \/ JobComplete

SpecCreate == InitCreate /\ [][NextCreate]_vars

\* ------------------------------------------------ RolesGuard.canActivate
\* what @Roles(...roles) can have set on a handler or on a class
Metadata == {NoRoles} \cup {[defined |-> TRUE, roles |-> R] : R \in SUBSET AppRole}

\* the role of req.user: a role of the application, any other string, the
\* empty string, or none
RoleValues == AppRole \cup {"guest", "", "undefined"}
Users == {NoUser} \cup {[present |-> TRUE, role |-> r] : r \in RoleValues}

\* reflector.getAllAndOverride(ROLES_KEY, [handler, class]): the first of the
\* two that is defined
GetAllAndOverride(h, c) == IF h.defined THEN h ELSE c

\* !x for a role
Falsy(r) == r \in {"", "undefined"}

\* a guard that answers false where it has to reject
DecideByReturn(required, u) ==
  IF ~required.defined \/ required.roles = {} THEN "true"
  ELSE IF ~u.present \/ Falsy(u.role) THEN "false"
  ELSE IF u.role \notin required.roles THEN "false"
  ELSE "true"

\* the body of canActivate after the metadata lookup
Decide(required, u) ==
  IF ~required.defined \/ required.roles = {} THEN "true"
  ELSE IF ~u.present \/ Falsy(u.role) THEN "Forbidden: Missing role on user"
  ELSE IF u.role \notin required.roles THEN "Forbidden: Insufficient role"
  ELSE "true"

\* a request arrives at a handler with some metadata and some user
InitGuard ==
  /\ store = [t \in Tasks |-> [status |-> PENDING, dueDate |-> NoDate]]
  /\ InitIdle
  /\ InitFindAllIdle
  /\ InitBatchIdle
  /\ InitCreateIdle
  /\ gpc = "idle"
  /\ handlerRoles \in Metadata
  /\ classRoles \in Metadata
  /\ user \in Users
  /\ outcome = "none"

canActivate ==
  /\ gpc = "idle"
  /\ outcome' = Decide(GetAllAndOverride(handlerRoles, classRoles), user)
  /\ gpc' = "done"
  /\ UNCHANGED <<clock, store, lock, queue, sweepVars, ghostVars, lastOk, userVars,
                 uOps, pageVars, batchVars, createVars, handlerRoles, classRoles, user>>

NextGuard == canActivate

SpecGuard == InitGuard /\ [][NextGuard]_vars

\* ================================================================ claims
InTx(s) == pc[s] \in {"update", "add", "commit"}
Selected(s) == Ids(overdueTasks[s])

\* the jobs with the key of task t among the add calls of this invocation of s
Submitted(s, t) ==
  {c \in 1..Len(calls[s]) : \E j \in 1..Len(calls[s][c]) : calls[s][c][j].jobId = JobKey(t)}

Succeeded(s) == pc[s] = "done" /\ logged[s] \in {"ok", "noop"}

\* C1 (as stated): every task that is pending with a due date before `now` when
\* the invocation starts is OVERDUE in the store, with exactly one job of its
\* key submitted, when the invocation completes successfully.
C1_Original ==
  \A s \in Sweeps : Succeeded(s) =>
    \A t \in startEligible[s] :
      store[t].status = OVERDUE /\ Cardinality(Submitted(s, t)) = 1

\* C1 (amended): the same for every such task that no other writer (update,
\* updateStatus, remove, another sweep) committed a write to since the
\* invocation started.
C1_EligibleUntouchedSwept ==
  \A s \in Sweeps : Succeeded(s) =>
    \A t \in startEligible[s] \ touched[s] :
      store[t].status = OVERDUE /\ Cardinality(Submitted(s, t)) = 1

C1_Witness ==
  \E s \in Sweeps :
    /\ pc[s] = "done" /\ logged[s] = "ok"
    /\ Cardinality(startEligible[s] \ touched[s]) = 2
    /\ touched[s] = {}

\* C2: a job is submitted for a task only after the transaction that sets the
\* task to OVERDUE has committed: an invocation that has submitted a job has
\* committed.
C2_EnqueueOnlyAfterCommit ==
  \A s \in Sweeps : calls[s] # <<>> => (pc[s] = "done" /\ logged[s] = "ok")

\* C3: once an invocation has ended, no task it submitted a job for (and that
\* no other writer wrote to) has that job in the queue while its committed
\* status is still PENDING.
C3_NoQueuedWhilePending ==
  \A s \in Sweeps : pc[s] = "done" =>
    \A t \in Tasks \ touched[s] :
      (Submitted(s, t) # {} /\ JobsFor(queue, t) # {}) => store[t].status # PENDING

\* C4: the sweep writes OVERDUE to a row, and submits a job for it, only if
\* the committed status of the row is PENDING when the update is applied.
C4_WritesOnlyPendingRows ==
  \A s \in Sweeps :
    /\ \A t \in Tasks : lock[t] = s => store[t].status = PENDING
    /\ InTx(s) => \A t \in Tasks :
         (Submitted(s, t) # {} /\ store[t] # Absent) => store[t].status = PENDING

\* C5: when two overlapping invocations selected the same pending task, at
\* most one of them writes its row to OVERDUE, and the queue holds at most one
\* 'mark-overdue' job for it.
C5_NoDoubleTransition ==
  \A t \in Tasks :
    /\ \A s1, s2 \in Sweeps :
         (s1 # s2 /\ t \in raced[s1] /\ t \in raced[s2])
           => ~(t \in wrote[s1] /\ t \in wrote[s2])
    /\ Cardinality(JobsFor(queue, t)) <= 1

\* C6: every step of an invocation leaves the committed rows of all the tasks
\* it selected as they were, or leaves every one of them OVERDUE (a row deleted
\* meanwhile stays deleted); a failing step leaves them all as they were.
C6_AtomicTransition ==
  [][\A s \in Sweeps : pc'[s] # pc[s] =>
       \/ \A t \in Selected(s) : store'[t] = store[t]
       \/ /\ logged'[s] = "ok"
          /\ \A t \in Selected(s) : store'[t].status = OVERDUE \/ store'[t] = Absent]_vars

C6_Witness ==
  \E s \in Sweeps :
    /\ pc[s] = "done" /\ logged[s] = "ok"
    /\ Len(overdueTasks[s]) = 2
    /\ wrote[s] = Selected(s)
    /\ \A t \in Selected(s) : store[t].status = OVERDUE

\* C7: no step of an invocation changes the row of, or submits a job for, a
\* task whose committed status is not PENDING or whose due date is null or
\* not before the invocation's `now`.
C7_OnlyEligibleTouched ==
  [][\A s \in Sweeps : pc'[s] # pc[s] =>
       \A t \in Tasks :
         (store'[t] # store[t] \/ Submitted(s, t)' \ Submitted(s, t) # {}) =>
           /\ store[t].status = PENDING
           /\ store[t].dueDate # NoDate
           /\ store[t].dueDate < now[s]]_vars

\* C8: a sweep that reads the same clock value as the last successful sweep,
\* with no write to the table since that sweep started, selects nothing,
\* changes no row, adds no job and ends on the no-op path.
C8_SecondRunIsNoOp ==
  [][\A s \in Sweeps :
       (pc[s] = "find" /\ pc'[s] # "find" /\ lastOk = now[s] /\ failedAt'[s] = "none") =>
         /\ overdueTasks'[s] = <<>>
         /\ logged'[s] = "noop"
         /\ pc'[s] = "done"
         /\ store' = store
         /\ queue' = queue
         /\ calls'[s] = <<>>]_vars

\* the second run has found nothing although a task it would otherwise select
\* was swept by the first
C8_Witness ==
  \E s \in Sweeps :
    /\ pc[s] = "done" /\ logged[s] = "noop"
    /\ lastOk = now[s]
    /\ \E t \in Tasks : store[t].status = OVERDUE /\ store[t].dueDate # NoDate
                        /\ store[t].dueDate < now[s]
    /\ \E t \in Tasks : JobsFor(queue, t) # {}

\* C9: a successful sweep of N >= 1 tasks has made exactly one add call, which
\* carries all N jobs.
C9_SingleBatchedCall ==
  \A s \in Sweeps : (pc[s] = "done" /\ logged[s] = "ok") =>
    /\ Len(calls[s]) = 1
    /\ Len(calls[s][1]) = Len(overdueTasks[s])

\* C10: the step in which the selection query fails changes no row, takes no
\* lock and adds no job; it logs the error and the invocation returns without
\* an exception leaving it.
C10_FindFailureIsolated ==
  [][\A s \in Sweeps : (pc[s] = "find" /\ failedAt'[s] = "find") =>
       /\ store' = store
       /\ lock' = lock
       /\ queue' = queue
       /\ calls'[s] = <<>>
       /\ wrote'[s] = {}
       /\ logged'[s] = "error"
       /\ ~propagated'[s]
       /\ pc'[s] = "done"]_vars

C10_Witness ==
  \E s \in Sweeps :
    /\ pc[s] = "done" /\ failedAt[s] = "find" /\ logged[s] = "error"
    /\ Eligible(store, now[s]) # {}
    /\ queue = <<>>

\* C11: whichever step of an invocation fails (selection, row update, queue
\* submission, commit), the failure is logged and caught: no exception leaves
\* the invocation, its transaction holds no row any more, the invocation
\* reaches its return, and the next invocation starts.
C11_AlwaysReturns ==
  /\ [](\A s \in Sweeps :
         /\ ~propagated[s]
         /\ failedAt[s] # "none" =>
              /\ pc[s] = "done"
              /\ logged[s] = "error"
              /\ Written(s) = {})
  /\ \A s \in Sweeps : (pc[s] \in {"find", "update", "add", "commit"}) ~> (pc[s] = "done")
  /\ \A s \in Sweeps : (pc[s] = "done") ~> (pc[s] = "find")

C11_Witness ==
  \E s \in Sweeps :
    /\ pc[s] = "done" /\ failedAt[s] = "commit" /\ logged[s] = "error"
    /\ Len(overdueTasks[s]) = NumTasks
    /\ \A t \in Tasks : store[t].status = PENDING /\ lock[t] = NoOwner

\* C12: a task that a sweep committed to OVERDUE while its own add was a
\* no-op on the key (a stale job held it) is submitted again by a later
\* sweep: it does not stay without an accepted job for ever.
C12_NoTaskDropped ==
  \A t \in Tasks : (t \in unqueued) ~> (t \notin unqueued)

\* C13: whatever the invocations did (succeeded, rolled back, ran again,
\* overlapped), the queue holds at most one 'mark-overdue' job per task id.
C13_AtMostOneJobPerTask ==
  \A t \in Tasks :
    \A i, j \in 1..Len(queue) :
      (/\ queue[i].name = "mark-overdue" /\ queue[j].name = "mark-overdue"
       /\ queue[i].data.taskId = t /\ queue[j].data.taskId = t) => i = j

\* two overlapping invocations have both submitted the job of the same task
C13_Witness ==
  \E t \in Tasks :
    /\ Submitted("A", t) # {} /\ Submitted("B", t) # {}
    /\ Cardinality(JobsFor(queue, t)) = 1
    /\ \E s \in Sweeps : failedAt[s] = "commit"

\* C14: of two selected tasks, the one that is due earlier stands earlier in
\* the selection, and its row update and its job submission have happened
\* whenever those of the later one have.
C14_AscendingDueOrder ==
  \A s \in Sweeps :
    \A a, b \in 1..Len(overdueTasks[s]) :
      overdueTasks[s][a].dueDate < overdueTasks[s][b].dueDate =>
        /\ a < b
        /\ lock[overdueTasks[s][b].id] = s =>
             /\ lock[overdueTasks[s][a].id] = s \/ store[overdueTasks[s][a].id] = Absent
             /\ Submitted(s, overdueTasks[s][a].id) # {}
        /\ \A c \in Submitted(s, overdueTasks[s][b].id) :
             \E d \in Submitted(s, overdueTasks[s][a].id) : d < c

C14_Witness ==
  \E s \in Sweeps :
    /\ pc[s] = "done" /\ logged[s] = "ok"
    /\ Len(overdueTasks[s]) = 2
    /\ overdueTasks[s][1].dueDate < overdueTasks[s][2].dueDate
    /\ wrote[s] = Selected(s)
    /\ Len(calls[s]) = 2

\* C15: when an invocation aborts, every task that was eligible at its start
\* and that no other writer wrote is still pending and eligible; the next
\* selection that succeeds contains every such task that is still pending;
\* each add leaves a job of the task's key in the queue; and with failures
\* that do not last for ever, every such task becomes OVERDUE, committed by
\* an invocation that submitted its job.
C15_AbortedSweepIsRetried ==
  /\ [](\A s \in Sweeps : (pc[s] = "done" /\ logged[s] = "error") =>
          \A t \in startEligible[s] \ touched[s] :
            store[t].status = PENDING /\ t \in Eligible(store, now[s]))
  /\ [][\A s \in Sweeps : (pc[s] = "find" /\ pc'[s] # "find" /\ failedAt'[s] = "none") =>
          \A t \in aborted : store[t].status = PENDING => t \in Ids(overdueTasks'[s])]_vars
  /\ [][\A s \in Sweeps : (pc[s] = "add" /\ pc'[s] \in {"update", "commit"}) =>
          JobsFor(queue', Task(s).id) # {}]_vars
  /\ [][\A t \in aborted : (store[t].status = PENDING /\ store'[t].status = OVERDUE) =>
          \E s \in Sweeps : t \in wrote'[s] /\ Submitted(s, t) # {}]_vars
  /\ \A t \in Tasks : (t \in aborted) ~> (store[t].status = OVERDUE)

\* a task of an aborted invocation is overdue with its job in the queue
C15_Witness ==
  \E t \in aborted :
    /\ store[t].status = OVERDUE
    /\ t \in wrote["A"]
    /\ JobsFor(queue, t) # {}
    /\ t \notin unqueued

\* C16: the job an invocation submits for its c-th selected task has the key
\* "overdue-" followed by that task's id, a payload of exactly that task's id
\* and due date, 3 attempts and removal on completion; two submitted jobs
\* have the same key exactly when they are of the same task.
C16_JobKeyAndPayload ==
  /\ \A s \in Sweeps : \A c \in 1..Len(calls[s]) :
       /\ Len(calls[s][c]) = 1
       /\ calls[s][c][1].name = "mark-overdue"
       /\ calls[s][c][1].jobId = <<"overdue-", overdueTasks[s][c].id>>
       /\ DOMAIN calls[s][c][1].data = {"taskId", "dueDate"}
       /\ calls[s][c][1].data.taskId = overdueTasks[s][c].id
       /\ calls[s][c][1].data.dueDate = overdueTasks[s][c].dueDate
       /\ store[overdueTasks[s][c].id] # Absent =>
            calls[s][c][1].data.dueDate = store[overdueTasks[s][c].id].dueDate
       /\ calls[s][c][1].attempts = 3
       /\ calls[s][c][1].removeOnComplete = TRUE
  /\ \A s, r \in Sweeps : \A c \in 1..Len(calls[s]) : \A d \in 1..Len(calls[r]) :
       (calls[s][c][1].jobId = calls[r][d][1].jobId)
         <=> (calls[s][c][1].data.taskId = calls[r][d][1].data.taskId)

\* two tasks with the same due date have been submitted by one invocation
C16_Witness ==
  \E s \in Sweeps :
    /\ Len(calls[s]) = 2
    /\ calls[s][1][1].data.dueDate = calls[s][2][1].data.dueDate
    /\ calls[s][1][1].jobId # calls[s][2][1].jobId
    /\ Len(queue) = 2

\* C17: no step of an invocation deletes or creates a row, and no step of it
\* changes a field of a row other than status.
C17_SweepFrame ==
  [][pc' # pc =>
       \A t \in Tasks :
         /\ (store'[t] = Absent) <=> (store[t] = Absent)
         /\ store'[t].dueDate = store[t].dueDate
         /\ store'[t] # store[t] => store'[t] = [store[t] EXCEPT !.status = store'[t].status]]_vars

\* an invocation has committed: its rows are there, OVERDUE, with their due dates
C17_Witness ==
  \E s \in Sweeps :
    /\ pc[s] = "done" /\ logged[s] = "ok" /\ wrote[s] # {}
    /\ \A i \in 1..Len(overdueTasks[s]) :
         /\ store[overdueTasks[s][i].id].status = OVERDUE
         /\ store[overdueTasks[s][i].id].dueDate = overdueTasks[s][i].dueDate
    /\ \E t \in Tasks : store[t] = Absent

C19_BatchResultPerTask ==
  bpc = "done" =>
    /\ Len(results) = Len(taskIds)
    /\ \A i \in 1..Len(results) :
         /\ results[i].taskId = taskIds[i]
         /\ results[i].success <=> effects[i]
         /\ results[i].error <=> ~results[i].success

\* C20: once a create call is over: if it threw, its row is not in the table;
\* if it returned, its row is; and, whenever no create call is running,
\* every 'task-status-update' job in the queue is of a row of the table.
C20_CreateAllOrNothing ==
  /\ cpc = "done" => (cResult = "error" <=> store[cId] = Absent)
  /\ cpc \in {"idle", "done"} =>
       \A i \in 1..Len(queue) :
         queue[i].name = "task-status-update" => store[queue[i].data.taskId] # Absent

\* C21: an update has called the queue exactly when the status it saved
\* differs from the one it read under the lock, and a job enters the queue
\* only so, carrying the task's id and the saved status; a failed add leaves
\* the transaction open and able to commit, and the commit writes the saved
\* status; an update of an id without a row, and an update whose save throws,
\* leave the table and the queue as they were and hold no lock.
C21_UpdateEnqueueRule ==
  /\ [](upc = "saved" => ((uAdd # "none") <=> (uOrig # uDto)))
  /\ [](upc = "saved" /\ uAdd = "failed" => ENABLED TsUpdateCommit)
  /\ [][Len(queue') > Len(queue) =>
          /\ upc = "locked" /\ uOrig # uDto /\ uAdd' = "accepted"
          /\ queue' = Append(queue, [name |-> "task-status-update", jobId |-> AutoId,
                                     data |-> [taskId |-> uTask, status |-> uDto],
                                     attempts |-> 1, removeOnComplete |-> FALSE])]_vars
  /\ [][(upc = "locked" /\ uAdd' = "failed") =>
          upc' = "saved" /\ lock' = lock /\ queue' = queue /\ store' = store]_vars
  /\ [][(upc = "saved" /\ uResult' = "ok") =>
          /\ store' = [store EXCEPT ![uTask].status = uDto]
          /\ queue' = queue
          /\ lock'[uTask] = NoOwner]_vars
  /\ [][(upc = "idle" /\ uOps' # uOps /\ store[uTask'] = Absent) =>
          /\ uResult' = "notfound" /\ upc' = "idle"
          /\ store' = store /\ queue' = queue /\ lock' = lock]_vars
  /\ [][(upc = "locked" /\ upc' = "idle") =>
          /\ uResult' = "error"
          /\ store' = store /\ queue' = queue
          /\ lock'[uTask] = NoOwner]_vars

\* an update whose add failed has committed
C21_Witness ==
  /\ upc = "idle" /\ uResult = "ok" /\ uAdd = "failed"
  /\ queue = <<>>
  /\ \E t \in Tasks : store[t] = Absent

\* C22: the guard returns true exactly when the roles in force (those of the
\* handler if it declares any metadata, else those of the class) are absent
\* or empty, or the request has a user whose role is one of them; otherwise
\* it throws a ForbiddenException; it never returns false.
C22_RolesGuardDecision ==
  gpc = "done" =>
    LET inForce == IF handlerRoles.defined THEN handlerRoles ELSE classRoles
        open == ~inForce.defined \/ inForce.roles = {}
        member == user.present /\ user.role \in inForce.roles
    IN /\ (outcome = "true") <=> (open \/ member)
       /\ ~(open \/ member) =>
            outcome \in {"Forbidden: Missing role on user", "Forbidden: Insufficient role"}
       /\ outcome # "false"

\* a user whose role is not among @Roles('admin', 'user') has been rejected
C22_Witness ==
  /\ gpc = "done"
  /\ handlerRoles = [defined |-> TRUE, roles |-> {"admin", "user"}]
  /\ classRoles = [defined |-> TRUE, roles |-> {"admin", "user"}]
  /\ user = [present |-> TRUE, role |-> "guest"]
  /\ outcome = "Forbidden: Insufficient role"

====
